---- MODULE Spec2Model ----
(***************************************************************************)
(* Model of the Agentic RAG engine: the LangGraph workflow built by        *)
(* GraphBuilder (retriever -> sufficiency gate -> direct answer | ReAct    *)
(* agent), the RAGNodes node functions, the per-thread MemorySaver         *)
(* checkpoints, the Streamlit chat handler that calls run(), concurrent    *)
(* callers of run(), the hybrid retriever built by VectorStore, and the    *)
(* VectorStore object itself.                                              *)
(***************************************************************************)
EXTENDS Integers, Sequences, FiniteSets, TLC

(* ------------------------------ bounds --------------------------------- *)
\* Chat turns kept in the UI history before the model stops submitting.
\* Also the run() calls of one caller calling one call after the other.
MaxTurns == 2
\* Longest judge reply enumerated for the gate's text classification.
MaxTextLen == 4
\* Step budget of one agent invocation (the agent graph's recursion limit,
\* scaled down).
RecursionLimit == 6
\* run() calls made by each concurrent worker.
MaxCalls == 1
\* Hits one index lookup returns (k of the code, scaled down).
MaxHits == 2
\* Queries made through one VectorStore.
MaxLookups == 3

(* ------------------------------ data ----------------------------------- *)
\* Callers of run(): the chat handler and the concurrent workers.
Procs == {"ui", "w1", "w2"}
\* Callers of run() other than the chat handler, running at the same time.
Workers == {"w1", "w2"}
Threads == {"t1", "t2"}
SessionThread == "t1"
Questions == {"q1", "q2"}
DocLists == {<<>>, <<"d1">>, <<"d2", "d1">>}
Tools == {"retriever", "wikipedia", "tavily_search", "arxiv"}
LLMTexts == {"txt", ""}

NoValue == "None"
\* self._agent before any agent is built.
NoAgent == 0
UnableText == "Impossible de generer une reponse."
AgentErrorText == "Erreur de l'agent : e"
TestFailText == "Aucun document trouve ou erreur."
TechErrorText == "Desole, une erreur technique est survenue."
MissingAnswerText == "Desole, une erreur est survenue lors de la generation de la reponse."
NeedMoreStepsText == "Sorry, need more steps to process this request."
TestPrefix == "/test-retriever "

Alphabet == {"o", "u", "i", "O", "U", "I", "n", " "}
Oui == <<"o", "u", "i">>
JudgeTexts == {<<"o", "u", "i">>, <<" ", "O", "u", "i">>, <<"n", "o", "n">>, <<>>}

\* A tool's output text: a fixed sentence (kind) or the formatted excerpts.
Text(kind, body) == [kind |-> kind, body |-> body]
NoDocsText == Text("Aucun document trouve pour cette requete.", <<>>)
RetrieverErrorText == Text("Erreur lors de la recuperation des documents : e", <<>>)
ToolErrorText == Text("Error: e Please fix your mistakes.", <<>>)
PageText == Text("page", <<>>)
NoText == Text("None", <<>>)

\* Outcome of one call: it raised, or it returned a value.  The value of a
\* raised outcome is a placeholder of the call's result type.
Returned(v) == [raised |-> FALSE, value |-> v]
RaisedSeq == [raised |-> TRUE, value |-> <<>>]
RaisedStr == [raised |-> TRUE, value |-> ""]
RaisedText == [raised |-> TRUE, value |-> NoText]

RetrieverOutcomes == {RaisedSeq} \cup {Returned(ds) : ds \in DocLists}
JudgeOutcomes == {RaisedSeq} \cup {Returned(t) : t \in JudgeTexts}
LLMOutcomes == {RaisedStr} \cup {Returned(t) : t \in LLMTexts}
ExternalOutcomes == {RaisedText, Returned(PageText)}

(* ----------------------- text helpers (str methods) -------------------- *)
LowerChar(c) ==
  CASE c = "O" -> "o"
    [] c = "U" -> "u"
    [] c = "I" -> "i"
    [] OTHER -> c

Lower(s) == [k \in 1..Len(s) |-> LowerChar(s[k])]

RECURSIVE LStrip(_)
LStrip(s) == IF s # <<>> /\ Head(s) = " " THEN LStrip(Tail(s)) ELSE s

RECURSIVE RStrip(_)
RStrip(s) ==
  IF s # <<>> /\ s[Len(s)] = " " THEN RStrip(SubSeq(s, 1, Len(s) - 1)) ELSE s

Strip(s) == RStrip(LStrip(s))

\* Python's `sub in s` for strings.
Contains(s, sub) ==
  \E k \in 0..(Len(s) - Len(sub)) : SubSeq(s, k + 1, k + Len(sub)) = sub

(* ------------------------- RAGState (channels) ------------------------- *)
\* State of a thread that has no checkpoint yet: only `question` is supplied
\* by run(); the optional fields are unset.  `stale` is bookkeeping: the
\* fields whose value was loaded from the thread's checkpoint and has not been
\* written by the invocation that holds the state.
FreshState ==
  [question |-> NoValue, retrieved_docs |-> <<>>, answer |-> NoValue,
   stale |-> {}]

\* A node's update of one field: the new value replaces the old one (the
\* fields carry no reducer).
Write(s, field, v) == [s EXCEPT ![field] = v, !.stale = @ \ {field}]

\* The state an invocation starts from: the thread's checkpoint (or the fresh
\* state) with the input question written over it.
LoadState(store, t, q) ==
  LET base == IF t \in DOMAIN store THEN store[t] ELSE FreshState
      old == (IF t \in DOMAIN store THEN {"retrieved_docs"} ELSE {})
               \cup (IF base.answer # NoValue THEN {"answer"} ELSE {})
  IN [base EXCEPT !.question = q, !.stale = old]

(* --------------------- GraphBuilder._decide_next_step ------------------ *)
DecideNextStep_NoFastPath(docs, judge) ==
  IF judge.raised
    THEN [raised |-> TRUE, decision |-> NoValue, calls |-> 1]
    ELSE [raised |-> FALSE,
          decision |-> IF Contains(Lower(Strip(judge.value)), Oui)
                         THEN "generate_direct" ELSE "agent_search",
          calls |-> 1]

DecideNextStep_CaseSensitive(docs, judge) ==
  IF docs = <<>>
    THEN [raised |-> FALSE, decision |-> "agent_search", calls |-> 0]
    ELSE IF judge.raised
      THEN [raised |-> TRUE, decision |-> NoValue, calls |-> 1]
      ELSE [raised |-> FALSE,
            decision |-> IF Contains(Strip(judge.value), Oui)
                           THEN "generate_direct" ELSE "agent_search",
            calls |-> 1]

\* `judge` is the outcome the chain.invoke call would have; it is consulted
\* only when the documents are not empty.  An exception of chain.invoke is not
\* caught in the function, so it leaves it.
DecideNextStep(docs, judge) ==
  IF docs = <<>>
    THEN [raised |-> FALSE, decision |-> "agent_search", calls |-> 0]
    ELSE IF judge.raised
      THEN [raised |-> TRUE, decision |-> NoValue, calls |-> 1]
      ELSE [raised |-> FALSE,
            decision |-> IF Contains(Lower(Strip(judge.value)), Oui)
                           THEN "generate_direct" ELSE "agent_search",
            calls |-> 1]

(* ------------------- GraphBuilder._generate_direct_answer -------------- *)
GenerateDirectAnswer_Swallow(llm) ==
  IF llm.raised THEN Returned(UnableText) ELSE Returned(llm.value)

\* One generation request; its text is the answer, its exception propagates.
GenerateDirectAnswer(llm) ==
  IF llm.raised THEN RaisedStr ELSE Returned(llm.value)

(* --------------------------- RAGNodes ---------------------------------- *)
RetrieveDocs_NoCatch(r) == r

RetrieveDocs_DocsOnError(r) ==
  IF r.raised THEN Returned(<<"d1">>) ELSE Returned(r.value)

\* retrieve_docs: the retriever's documents, or [] when it raised.
RetrieveDocs(r) == IF r.raised THEN Returned(<<>>) ELSE Returned(r.value)

GenerateAnswer_NoCatch(agentOut) ==
  IF agentOut.raised THEN RaisedStr
  ELSE Returned(IF agentOut.value = "" THEN UnableText ELSE agentOut.value)

GenerateAnswer_KeepEmpty(agentOut) ==
  IF agentOut.raised THEN Returned(AgentErrorText)
  ELSE Returned(agentOut.value)

\* generate_answer, from the agent invocation on: `agentOut` is the outcome of
\* self._agent.invoke (the content of the last message, or an exception).
GenerateAnswer(agentOut) ==
  IF agentOut.raised THEN Returned(AgentErrorText)
  ELSE Returned(IF agentOut.value = "" THEN UnableText ELSE agentOut.value)

\* "\n\n".join of "Source i+1:\n<page_content>" over enumerate(docs).
FormatDocs(docs) == [k \in 1..Len(docs) |-> <<"Source", k, docs[k]>>]

ExecuteRetriever_NoCatch(r) ==
  IF r.raised THEN RaisedText
  ELSE IF r.value = <<>> THEN Returned(NoDocsText)
  ELSE Returned(Text("excerpts", FormatDocs(r.value)))

\* _execute_retriever: always a string.
ExecuteRetriever(r) ==
  IF r.raised THEN Returned(RetrieverErrorText)
  ELSE IF r.value = <<>> THEN Returned(NoDocsText)
  ELSE Returned(Text("excerpts", FormatDocs(r.value)))

(* --------------------- prebuilt ReAct agent (tools node) --------------- *)
ToolNodeObserve_Reraise(out) ==
  IF out.raised THEN RaisedText ELSE Returned(out.value)

\* The agent's tools node: the tool's text becomes the observation; a tool
\* that raised becomes an error observation.
ToolNodeObserve(out) ==
  IF out.raised THEN Returned(ToolErrorText) ELSE Returned(out.value)

\* What the model's reasoning step can produce.
ReasonOutcomes ==
  {[kind |-> "raise", arg |-> ""]}
    \cup {[kind |-> "final", arg |-> t] : t \in LLMTexts}
    \cup {[kind |-> "tool", arg |-> t] : t \in Tools}

(* ------------------------- graph wiring (build) ------------------------ *)
EntryPoint == "retriever"
END == "__end__"

ConditionalEdges_Swapped ==
  [generate_direct |-> "agent_search", agent_search |-> "generate_direct"]

\* add_conditional_edges("retriever", _decide_next_step, {...})
ConditionalEdges ==
  [generate_direct |-> "generate_direct", agent_search |-> "agent_search"]

Edge_Loop(node) == IF node = "agent_search" THEN EntryPoint ELSE END

\* add_edge("generate_direct", END); add_edge("agent_search", END)
Edge(node) == END

(* ------------------------------ UI helpers ----------------------------- *)
GraphBuilderAttrs == {"nodes", "graph", "llm"}

Msg(role, content) == [role |-> role, content |-> content]

ChatInputs ==
  {[prefix |-> "", rest |-> q] : q \in Questions}
    \cup {[prefix |-> TestPrefix, rest |-> "q1"]}

\* test_retriever: None unless the system is initialized and the retriever
\* attribute of rag_system can be read and queried.
TestRetriever(init, sys, r) ==
  IF ~init \/ sys = NoValue THEN RaisedSeq
  ELSE IF "retriever" \notin GraphBuilderAttrs THEN RaisedSeq
  ELSE r

(* ------------------ VectorStore: the hybrid retriever ------------------ *)
\* Page contents of the indexed chunks.
Corpus == {"d1", "d2", "d3", "d4"}

\* k of the FAISS retriever and of the BM25 retriever.
K == 10
\* top_n of the CrossEncoderReranker.
TopN == 3
\* weights of the EnsembleRetriever, in tenths: [bm25, faiss].
Weights == <<5, 5>>
\* The rank constant of the ensemble's reciprocal rank fusion (its default).
RrfC == 60

Min(a, b) == IF a <= b THEN a ELSE b

\* What one index lookup can give: an exception, or at most k hits in rank
\* order (two chunks can have the same page content).
IndexLists == UNION {[1..n -> Corpus] : n \in 0..Min(K, MaxHits)}
IndexOutcomes == {RaisedSeq} \cup {Returned(l) : l \in IndexLists}

\* Scores the cross-encoder gives to (query, page content).
RerankScores == [Corpus -> 0..1]

\* The fused scores are sums of weight / (rank + c); they are kept as whole
\* numbers over one common denominator, the product of all (rank + c).
RECURSIVE Denominator(_)
Denominator(rank) ==
  IF rank = 0 THEN 1 ELSE (rank + RrfC) * Denominator(rank - 1)

CommonDenominator == Denominator(Min(K, MaxHits))

RankTerm(weight, rank) == weight * (CommonDenominator \div (rank + RrfC))

\* Sum of weight / (rank + c) over the ranks (from 1) at which `doc` stands
\* in `list`.
RECURSIVE RankSum(_, _, _, _)
RankSum(list, weight, doc, rank) ==
  IF rank > Len(list) THEN 0
  ELSE RankSum(list, weight, doc, rank + 1)
         + (IF list[rank] = doc THEN RankTerm(weight, rank) ELSE 0)

\* The fused score of a page content over the lists of the retrievers.
RrfScore(lists, weights, doc) ==
  RankSum(lists[1], weights[1], doc, 1) + RankSum(lists[2], weights[2], doc, 1)

Unique_KeepAll(list) == list

\* unique_by_key: the first occurrence of each page content, in order.
RECURSIVE Unique(_)
Unique(list) ==
  IF list = <<>> THEN <<>>
  ELSE LET init == Unique(SubSeq(list, 1, Len(list) - 1))
           last == list[Len(list)]
       IN IF \E k \in DOMAIN init : init[k] = last THEN init
          ELSE Append(init, last)

Drop(list, i) == SubSeq(list, 1, i - 1) \o SubSeq(list, i + 1, Len(list))

\* sorted(..., reverse=True): by decreasing key, equal keys in their order;
\* keys[k] is the key of list[k].
RECURSIVE SortDesc(_, _)
SortDesc(list, keys) ==
  IF list = <<>> THEN <<>>
  ELSE LET i == CHOOSE i \in DOMAIN list :
                  /\ \A j \in DOMAIN list : keys[j] <= keys[i]
                  /\ \A j \in 1..(i - 1) : keys[j] < keys[i]
       IN <<list[i]>> \o SortDesc(Drop(list, i), Drop(keys, i))

\* The fused score of each entry of `list`.
RECURSIVE RrfScores(_, _, _)
RrfScores(list, lists, weights) ==
  IF list = <<>> THEN <<>>
  ELSE <<RrfScore(lists, weights, Head(list))>>
         \o RrfScores(Tail(list), lists, weights)

\* EnsembleRetriever over [first, second] with `weights`: weighted reciprocal
\* rank fusion of the two result lists.
Fuse(first, second, weights) ==
  LET all == Unique(first \o second)
  IN SortDesc(all, RrfScores(all, <<first, second>>, weights))

\* The rerank score of each entry of `docs`.
RECURSIVE ScoresOf(_, _)
ScoresOf(docs, scores) ==
  IF docs = <<>> THEN <<>>
  ELSE <<scores[Head(docs)]>> \o ScoresOf(Tail(docs), scores)

Rerank_NoCut(docs, scores) == SortDesc(docs, ScoresOf(docs, scores))

\* CrossEncoderReranker(top_n=3): the documents by decreasing score, cut
\* after the first top_n.
Rerank(docs, scores) ==
  LET sorted == SortDesc(docs, ScoresOf(docs, scores))
  IN SubSeq(sorted, 1, Min(TopN, Len(sorted)))

\* self.retriever.invoke(query): the ContextualCompressionRetriever asks the
\* ensemble, which asks BM25 and FAISS in turn and lets their exceptions
\* through; a non-empty fused list goes through the reranker.
HybridInvoke(bm25, faiss, scores) ==
  IF bm25.raised \/ faiss.raised THEN RaisedSeq
  ELSE LET fused == Fuse(bm25.value, faiss.value, Weights)
       IN Returned(IF fused = <<>> THEN <<>> ELSE Rerank(fused, scores))

HybridIdle ==
  [phase |-> "off", bm25 |-> RaisedSeq, faiss |-> RaisedSeq,
   scores |-> [d \in Corpus |-> 0], fused |-> <<>>, out |-> RaisedSeq,
   stage |-> RaisedSeq]

Range(list) == {list[k] : k \in DOMAIN list}

\* The last method call of a VectorStore: `arg` is its argument (documents,
\* or the query), `error` tells how it ended, `lookedUp` whether it queried
\* the retriever, `value` what the query gave.
NoCall ==
  [op |-> NoValue, arg |-> <<>>, error |-> NoValue, lookedUp |-> FALSE,
   value |-> <<>>]

\* VectorStore.__init__: no vector store and no retriever yet (None is kept
\* as RaisedSeq, an attribute that is set as Returned(its documents)).
VStoreNew ==
  [vectorstore |-> RaisedSeq, retriever |-> RaisedSeq, completed |-> FALSE,
   lookups |-> 0, last |-> NoCall]

(* ------------------------------ state ---------------------------------- *)
VARIABLES
  initialized,  \* st.session_state.initialized
  rag_system,   \* st.session_state.rag_system: NoValue or "GraphBuilder"
  messages,     \* st.session_state.messages
  graph,        \* GraphBuilder.graph: NoValue or "compiled"
  ckpt,         \* MemorySaver of the compiled graph: thread id -> RAGState
  agent,        \* RAGNodes._agent: NoAgent, or the k-th agent this instance built
  pc,           \* position of each caller of run()
  call,         \* arguments of the run() call in progress
  state,        \* RAGState of the invocation in progress
  decision,     \* what _decide_next_step returned in this turn
  judgeCalls,   \* judge requests issued in this turn
  trace,        \* stages run in this turn, in order
  faults,       \* collaborator failures that happened in this turn
  steps,        \* steps taken by the agent invocation in progress
  pending,      \* tool selected by the last reasoning step
  lastObs,      \* the last tool call of this agent invocation
  used,         \* the agent the invocation of this turn ran on
  gate,         \* gate-only specification: inputs and result
  hybrid,       \* retriever-only specification: inputs and result
  vstore,       \* the VectorStore object and its last method call
  detached,     \* callers whose invocation runs on a graph run() has replaced
  calls,        \* run() calls each worker has made
  writer,       \* who saved each thread's checkpoint last
  overlap       \* workers whose current call ran while another call ran

vars ==
  <<initialized, rag_system, messages, graph, ckpt, agent, pc, call, state,
    decision, judgeCalls, trace, faults, steps, pending, lastObs, used,
    gate, hybrid, vstore, detached, calls, writer, overlap>>

uiVars == <<initialized, rag_system, messages>>
turnVars ==
  <<decision, judgeCalls, trace, faults, steps, pending, lastObs, used>>
concVars == <<detached, calls, writer, overlap>>

NoObs ==
  [tool |-> NoValue, toolRaised |-> FALSE, funcRaised |-> FALSE,
   source |-> RaisedSeq, obs |-> NoText]

GateIdle ==
  [phase |-> "off", docs |-> <<>>, judge |-> RaisedSeq,
   out |-> [raised |-> FALSE, decision |-> NoValue, calls |-> 0]]

InitProgram ==
  /\ initialized = FALSE
  /\ rag_system = NoValue
  /\ messages = <<>>
  /\ graph = NoValue
  /\ ckpt = [t \in {} |-> FreshState]
  /\ agent = NoAgent
  /\ pc = [p \in Procs |-> "idle"]
  /\ call = [p \in Procs |-> [question |-> NoValue, thread_id |-> SessionThread]]
  /\ state = [p \in Procs |-> FreshState]
  /\ decision = [p \in Procs |-> NoValue]
  /\ judgeCalls = [p \in Procs |-> 0]
  /\ trace = [p \in Procs |-> <<>>]
  /\ faults = [p \in Procs |-> {}]
  /\ steps = [p \in Procs |-> 0]
  /\ pending = [p \in Procs |-> NoValue]
  /\ lastObs = [p \in Procs |-> NoObs]
  /\ used = [p \in Procs |-> NoAgent]
  /\ detached = {}
  /\ calls = [p \in Procs |-> 0]
  /\ writer = [t \in {} |-> NoValue]
  /\ overlap = {}

Init ==
  InitProgram /\ gate = GateIdle /\ hybrid = HybridIdle /\ vstore = VStoreNew

\* The checkpointer of the graph an invocation runs on saves state `s` for the
\* invocation's thread.  The store of a graph that run() has replaced is no
\* longer the one GraphBuilder.graph holds: a save there does not reach `ckpt`.
SaveCheckpoint(p, s) ==
  LET t == call[p].thread_id IN
  IF p \in detached
    THEN UNCHANGED <<ckpt, writer>>
    ELSE /\ ckpt' = [u \in DOMAIN ckpt \cup {t} |-> IF u = t THEN s ELSE ckpt[u]]
         /\ writer' = [u \in DOMAIN writer \cup {t} |->
                         IF u = t THEN p ELSE writer[u]]

(* --------------------------- Streamlit UI ------------------------------ *)
\* The record of "this turn" starts empty with every new submission.
ResetTurn(p) ==
  /\ decision' = [decision EXCEPT ![p] = NoValue]
  /\ judgeCalls' = [judgeCalls EXCEPT ![p] = 0]
  /\ trace' = [trace EXCEPT ![p] = <<>>]
  /\ faults' = [faults EXCEPT ![p] = {}]
  /\ steps' = [steps EXCEPT ![p] = 0]
  /\ pending' = [pending EXCEPT ![p] = NoValue]
  /\ lastObs' = [lastObs EXCEPT ![p] = NoObs]
  /\ used' = [used EXCEPT ![p] = NoAgent]

BuildButton_FlagFirst ==
  /\ pc["ui"] = "idle"
  /\ \E hasDocs \in BOOLEAN, built \in BOOLEAN :
       LET ok == hasDocs /\ built IN
       /\ initialized' = hasDocs
       /\ rag_system' = IF ok THEN "GraphBuilder" ELSE NoValue
       /\ graph' = IF ok THEN "compiled" ELSE NoValue
  /\ messages' = <<>>
  /\ ckpt' = [t \in {} |-> FreshState]
  /\ writer' = [t \in {} |-> NoValue]
  /\ agent' = NoAgent
  /\ ResetTurn("ui")
  /\ UNCHANGED <<pc, call, state, gate, hybrid, vstore, detached, calls, overlap>>

\* "Lancer la construction": reset, then build_rag_system when there are
\* documents.  A successful build holds a fresh GraphBuilder whose graph is
\* compiled with a new MemorySaver and whose agent is not built yet.
BuildButton ==
  /\ pc["ui"] = "idle"
  /\ \E hasDocs \in BOOLEAN, built \in BOOLEAN :
       LET ok == hasDocs /\ built IN
       /\ initialized' = ok
       /\ rag_system' = IF ok THEN "GraphBuilder" ELSE NoValue
       /\ graph' = IF ok THEN "compiled" ELSE NoValue
  /\ messages' = <<>>
  /\ ckpt' = [t \in {} |-> FreshState]
  /\ writer' = [t \in {} |-> NoValue]
  /\ agent' = NoAgent
  /\ ResetTurn("ui")
  /\ UNCHANGED <<pc, call, state, gate, hybrid, vstore, detached, calls, overlap>>

\* Chat input starting with "/test-retriever ": one user and one assistant
\* message, no run().  The call is kept as the last tool call: `source` is
\* what the retriever gives for the query, funcRaised whether test_retriever
\* came back with None.
ChatTest ==
  /\ initialized /\ rag_system # NoValue
  /\ pc["ui"] = "idle"
  /\ Len(messages) < 2 * MaxTurns
  /\ \E inp \in ChatInputs, r \in RetrieverOutcomes :
       /\ inp.prefix = TestPrefix
       /\ LET docs == TestRetriever(initialized, rag_system, r)
              response == IF ~docs.raised /\ docs.value # <<>>
                            THEN "documents trouves" ELSE TestFailText
          IN /\ messages' = messages \o
               <<Msg("user", <<"Test retriever: ", inp.rest>>),
                 Msg("assistant", <<response>>)>>
             /\ lastObs' = [lastObs EXCEPT !["ui"] =
                  [tool |-> "test_retriever", toolRaised |-> r.raised,
                   funcRaised |-> docs.raised, source |-> r, obs |-> NoText]]
  /\ decision' = [decision EXCEPT !["ui"] = NoValue]
  /\ judgeCalls' = [judgeCalls EXCEPT !["ui"] = 0]
  /\ trace' = [trace EXCEPT !["ui"] = <<>>]
  /\ faults' = [faults EXCEPT !["ui"] = {}]
  /\ steps' = [steps EXCEPT !["ui"] = 0]
  /\ pending' = [pending EXCEPT !["ui"] = NoValue]
  /\ used' = [used EXCEPT !["ui"] = NoAgent]
  /\ UNCHANGED <<initialized, rag_system, graph, ckpt, agent, pc, call, state,
                 gate, hybrid, vstore, concVars>>

\* Any other chat input: the user message is appended and run() is called.
ChatSubmit ==
  /\ initialized /\ rag_system # NoValue
  /\ pc["ui"] = "idle"
  /\ Len(messages) < 2 * MaxTurns
  /\ \E inp \in ChatInputs :
       /\ inp.prefix # TestPrefix
       /\ messages' = Append(messages, Msg("user", <<inp.rest>>))
       /\ call' = [call EXCEPT !["ui"] =
                     [question |-> inp.rest, thread_id |-> SessionThread]]
  /\ pc' = [pc EXCEPT !["ui"] = "run"]
  /\ ResetTurn("ui")
  /\ UNCHANGED <<initialized, rag_system, graph, ckpt, agent, state, gate, hybrid, vstore, concVars>>

ChatFinish_SilentOnError ==
  /\ pc["ui"] \in {"returned", "raised"}
  /\ LET full_response ==
           IF state["ui"].answer = NoValue THEN MissingAnswerText
           ELSE state["ui"].answer
     IN messages' = IF pc["ui"] = "raised" THEN messages
                    ELSE Append(messages, Msg("assistant", <<full_response>>))
  /\ pc' = [pc EXCEPT !["ui"] = "idle"]
  /\ state' = [state EXCEPT !["ui"] = FreshState]
  /\ UNCHANGED <<initialized, rag_system, graph, ckpt, agent, call, turnVars,
                 gate, hybrid, vstore, concVars>>

\* run() came back: its answer, or the fixed text when it raised, is appended
\* as the assistant message; the result of the call is dropped.
ChatFinish ==
  /\ pc["ui"] \in {"returned", "raised"}
  /\ LET full_response ==
           IF pc["ui"] = "raised" THEN TechErrorText
           ELSE IF state["ui"].answer = NoValue THEN MissingAnswerText
           ELSE state["ui"].answer
     IN messages' = Append(messages, Msg("assistant", <<full_response>>))
  /\ pc' = [pc EXCEPT !["ui"] = "idle"]
  /\ state' = [state EXCEPT !["ui"] = FreshState]
  /\ UNCHANGED <<initialized, rag_system, graph, ckpt, agent, call, turnVars,
                 gate, hybrid, vstore, concVars>>

(* ------------------------- GraphBuilder.run ---------------------------- *)
\* run(): build when no graph exists (a new MemorySaver), then invoke: the
\* thread's checkpoint is loaded, the input question written over it and the
\* input checkpoint saved; execution starts at the entry point.
RunInvoke(p) ==
  /\ pc[p] = "run"
  /\ LET t == call[p].thread_id
         store == IF graph = NoValue THEN [u \in {} |-> FreshState] ELSE ckpt
         s == LoadState(store, t, call[p].question)
     IN /\ state' = [state EXCEPT ![p] = s]
        /\ ckpt' = [u \in DOMAIN store \cup {t} |-> IF u = t THEN s ELSE store[u]]
        /\ writer' = [u \in DOMAIN store \cup {t} |->
                        IF u = t THEN p ELSE writer[u]]
  /\ graph' = "compiled"
  /\ pc' = [pc EXCEPT ![p] = EntryPoint]
  /\ UNCHANGED <<uiVars, agent, call, turnVars, gate, hybrid, vstore, detached, calls, overlap>>

Retrieve_Merge(p) ==
  /\ pc[p] = "retriever"
  /\ \E r \in RetrieverOutcomes :
       /\ faults' = [faults EXCEPT ![p] =
                       IF r.raised THEN @ \cup {"retriever"} ELSE @]
       /\ state' = [state EXCEPT ![p].retrieved_docs =
                      IF r.raised THEN @ ELSE @ \o r.value]
  /\ pc' = [pc EXCEPT ![p] = "gate"]
  /\ trace' = [trace EXCEPT ![p] = Append(@, "retriever")]
  /\ UNCHANGED <<uiVars, graph, ckpt, agent, call, decision, judgeCalls, steps,
                 pending, lastObs, used, gate, hybrid, vstore, concVars>>

\* Node "retriever" (RAGNodes.retrieve_docs).
Retrieve(p) ==
  /\ pc[p] = "retriever"
  /\ \E r \in RetrieverOutcomes :
       LET out == RetrieveDocs(r) IN
       /\ faults' = [faults EXCEPT ![p] =
                       IF r.raised THEN @ \cup {"retriever"} ELSE @]
       /\ IF out.raised
            THEN /\ pc' = [pc EXCEPT ![p] = "raised"]
                 /\ UNCHANGED state
            ELSE /\ pc' = [pc EXCEPT ![p] = "gate"]
                 /\ state' = [state EXCEPT ![p] =
                                Write(@, "retrieved_docs", out.value)]
  /\ trace' = [trace EXCEPT ![p] = Append(@, "retriever")]
  /\ UNCHANGED <<uiVars, graph, ckpt, agent, call, decision, judgeCalls, steps,
                 pending, lastObs, used, gate, hybrid, vstore, concVars>>

\* The conditional edge after "retriever" (_decide_next_step); when it
\* returns, the step's checkpoint is saved and the chosen node is next.
Decide(p) ==
  /\ pc[p] = "gate"
  /\ \E j \in JudgeOutcomes :
       LET d == DecideNextStep(state[p].retrieved_docs, j) IN
       /\ judgeCalls' = [judgeCalls EXCEPT ![p] = d.calls]
       /\ faults' = [faults EXCEPT ![p] =
                       IF d.calls > 0 /\ j.raised THEN @ \cup {"judge"} ELSE @]
       /\ decision' = [decision EXCEPT ![p] = d.decision]
       /\ IF d.raised
            THEN /\ pc' = [pc EXCEPT ![p] = "raised"]
                 /\ UNCHANGED <<ckpt, writer>>
            ELSE /\ pc' = [pc EXCEPT ![p] = ConditionalEdges[d.decision]]
                 /\ SaveCheckpoint(p, state[p])
  /\ trace' = [trace EXCEPT ![p] = Append(@, "gate")]
  /\ UNCHANGED <<uiVars, graph, agent, call, state, steps, pending, lastObs, used,
                 gate, hybrid, vstore, detached, calls, overlap>>

\* Node "generate_direct" (_generate_direct_answer).
GenerateDirect(p) ==
  /\ pc[p] = "generate_direct"
  /\ \E l \in LLMOutcomes :
       LET out == GenerateDirectAnswer(l) IN
       /\ faults' = [faults EXCEPT ![p] =
                       IF l.raised THEN @ \cup {"direct_llm"} ELSE @]
       /\ IF out.raised
            THEN /\ pc' = [pc EXCEPT ![p] = "raised"]
                 /\ UNCHANGED state
            ELSE /\ pc' = [pc EXCEPT ![p] = Edge("generate_direct")]
                 /\ state' = [state EXCEPT ![p] = Write(@, "answer", out.value)]
  /\ trace' = [trace EXCEPT ![p] = Append(@, "generate_direct")]
  /\ UNCHANGED <<uiVars, graph, ckpt, agent, call, decision, judgeCalls, steps,
                 pending, lastObs, used, gate, hybrid, vstore, concVars>>

(* -------------------- RAGNodes.generate_answer ------------------------- *)
\* Node "agent_search" starts: the agent is built first when none exists.
AgentSearch(p) ==
  /\ pc[p] = "agent_search"
  /\ pc' = [pc EXCEPT ![p] = IF agent = NoAgent THEN "agent_build" ELSE "agent_reason"]
  /\ trace' = [trace EXCEPT ![p] = Append(@, "agent_search")]
  /\ UNCHANGED <<uiVars, graph, ckpt, agent, call, state, decision, judgeCalls,
                 faults, steps, pending, lastObs, used, gate, hybrid, vstore, concVars>>

\* _build_agent, called outside the try block of generate_answer: building
\* the tools or the agent can raise, and the exception leaves the node.  Each
\* completed call assigns a new agent to self._agent.
AgentBuild(p) ==
  /\ pc[p] = "agent_build"
  /\ \E built \in BOOLEAN :
       IF built
         THEN /\ agent' = agent + 1
              /\ pc' = [pc EXCEPT ![p] = "agent_reason"]
              /\ UNCHANGED faults
         ELSE /\ pc' = [pc EXCEPT ![p] = "raised"]
              /\ faults' = [faults EXCEPT ![p] = @ \cup {"agent_build"}]
              /\ UNCHANGED agent
  /\ UNCHANGED <<uiVars, graph, ckpt, call, state, decision, judgeCalls, trace,
                 steps, pending, lastObs, used, gate, hybrid, vstore, concVars>>

\* The agent invocation ended with `agentOut`; generate_answer turns it into
\* the node's answer.  The invocation's own records (step count, tool calls)
\* end with it.
AgentReturn(p, agentOut) ==
  LET out == GenerateAnswer(agentOut) IN
  /\ IF out.raised
       THEN /\ pc' = [pc EXCEPT ![p] = "raised"]
            /\ UNCHANGED state
       ELSE /\ pc' = [pc EXCEPT ![p] = Edge("agent_search")]
            /\ state' = [state EXCEPT ![p] = Write(@, "answer", out.value)]
  /\ steps' = [steps EXCEPT ![p] = 0]
  /\ pending' = [pending EXCEPT ![p] = NoValue]
  /\ lastObs' = [lastObs EXCEPT ![p] = NoObs]

HasBudget_Unbounded(p) == TRUE

\* A further tool call needs a tools step and one more reasoning step.
HasBudget(p) == steps[p] + 3 <= RecursionLimit

\* One reasoning step of the agent: the model fails, gives the final message,
\* or asks for a tool.  The first step is where self._agent.invoke (line 56)
\* reads self._agent: the invocation runs on the agent held at that moment.  With no steps left for a tool call the invocation
\* ends with the need-more-steps message or with the recursion-limit error.
AgentReason(p) ==
  /\ pc[p] = "agent_reason"
  /\ \E o \in ReasonOutcomes :
       CASE o.kind = "raise" ->
              /\ faults' = [faults EXCEPT ![p] = @ \cup {"agent_llm"}]
              /\ AgentReturn(p, RaisedStr)
         [] o.kind = "final" ->
              /\ AgentReturn(p, Returned(o.arg))
              /\ UNCHANGED faults
         [] o.kind = "tool" /\ HasBudget(p) ->
              /\ pc' = [pc EXCEPT ![p] = "agent_tool"]
              /\ pending' = [pending EXCEPT ![p] = o.arg]
              /\ steps' = [steps EXCEPT ![p] = @ + 1]
              /\ UNCHANGED <<faults, state, lastObs>>
         [] o.kind = "tool" /\ ~HasBudget(p) ->
              /\ faults' = [faults EXCEPT ![p] = @ \cup {"budget"}]
              /\ \E limit \in {Returned(NeedMoreStepsText), RaisedStr} :
                   AgentReturn(p, limit)
  /\ used' = [used EXCEPT ![p] = IF steps[p] = 0 THEN agent ELSE @]
  /\ UNCHANGED <<uiVars, graph, ckpt, agent, call, decision, judgeCalls, trace,
                 gate, hybrid, vstore, concVars>>

\* The tools step: the selected tool runs; the retriever tool is
\* _execute_retriever over the retriever, the other three are the library
\* tools.  The observation goes back to the next reasoning step.
AgentTool(p) ==
  /\ pc[p] = "agent_tool"
  /\ \E o \in IF pending[p] = "retriever" THEN RetrieverOutcomes
              ELSE ExternalOutcomes :
       LET tool == pending[p]
           src == IF tool = "retriever" THEN o ELSE Returned(<<>>)
           out == IF tool = "retriever" THEN ExecuteRetriever(o) ELSE o
           seen == ToolNodeObserve(out)
           failed == o.raised
       IN
       /\ faults' = [faults EXCEPT ![p] = IF failed THEN @ \cup {"tool"} ELSE @]
       /\ IF seen.raised
            THEN AgentReturn(p, RaisedStr)
            ELSE /\ pc' = [pc EXCEPT ![p] = "agent_reason"]
                 /\ steps' = [steps EXCEPT ![p] = @ + 1]
                 /\ lastObs' = [lastObs EXCEPT ![p] =
                                  [tool |-> tool, toolRaised |-> failed,
                                   funcRaised |-> out.raised, source |-> src,
                                   obs |-> seen.value]]
                 /\ UNCHANGED <<state, pending>>
  /\ UNCHANGED <<uiVars, graph, ckpt, agent, call, decision, judgeCalls, trace,
                 used, gate, hybrid, vstore, concVars>>

\* The answer node's step ends at END: the checkpoint of the thread is saved
\* and invoke returns the state.
Persist(p) ==
  /\ pc[p] = END
  /\ SaveCheckpoint(p, state[p])
  /\ pc' = [pc EXCEPT ![p] = "returned"]
  /\ trace' = [trace EXCEPT ![p] = Append(@, "persist")]
  /\ UNCHANGED <<uiVars, graph, agent, call, state, decision, judgeCalls,
                 faults, steps, pending, lastObs, used, gate, hybrid, vstore, detached, calls, overlap>>

Turn(p) ==
  \/ RunInvoke(p)
  \/ Retrieve(p)
  \/ Decide(p)
  \/ GenerateDirect(p)
  \/ AgentSearch(p)
  \/ AgentBuild(p)
  \/ AgentReason(p)
  \/ AgentTool(p)
  \/ Persist(p)

Next ==
  \/ BuildButton
  \/ ChatTest
  \/ ChatSubmit
  \/ ChatFinish
  \/ Turn("ui")

Spec == Init /\ [][Next]_vars

\* The code of a turn keeps running once started; the user need not act.
FairSpec == Spec /\ WF_vars(Turn("ui"))

(* ------------------- concurrent callers of run() ----------------------- *)
\* The positions inside graph.invoke.
InvokeStages ==
  {"retriever", "gate", "generate_direct", "agent_search", "agent_build",
   "agent_reason", "agent_tool", END}

\* build() called by the owner of the GraphBuilder before any run().
Prebuild ==
  /\ graph = NoValue
  /\ \A p \in Workers : pc[p] = "idle" /\ calls[p] = 0
  /\ graph' = "compiled"
  /\ UNCHANGED <<uiVars, ckpt, agent, pc, call, state, turnVars, gate, hybrid, vstore,
                 concVars>>

\* Each worker asks its own question, so that a stored question tells whose
\* turn stored it.
WorkerQuestion == [p \in Workers |-> IF p = "w1" THEN "q1" ELSE "q2"]

\* What self._agent.invoke can come back with: an exception, or a last
\* message whose text is the model's, empty, or the need-more-steps text.
AgentOutcomes ==
  {RaisedStr} \cup {Returned(t) : t \in LLMTexts \cup {NeedMoreStepsText}}

\* A caller calls run(question, thread_id); the result of its previous call
\* is gone.
StartCall(p) ==
  /\ pc[p] \in {"idle", "returned", "raised"}
  /\ \E t \in Threads :
       call' = [call EXCEPT ![p] =
                  [question |-> WorkerQuestion[p], thread_id |-> t]]
  /\ calls' = [calls EXCEPT ![p] = @ + 1]
  /\ pc' = [pc EXCEPT ![p] = "run"]
  /\ state' = [state EXCEPT ![p] = FreshState]
  /\ detached' = detached \ {p}
  /\ LET others == {q \in Workers \ {p} : pc[q] \in {"run", "run_build", "run_invoke"} \cup InvokeStages}
     IN overlap' = IF others = {} THEN overlap \ {p}
                   ELSE overlap \cup others \cup {p}
  /\ ResetTurn(p)
  /\ UNCHANGED <<uiVars, graph, ckpt, agent, gate, hybrid, vstore, writer>>

WorkerCall(p) == calls[p] < MaxCalls /\ StartCall(p)

RunCheck_Always(p) ==
  /\ pc[p] = "run"
  /\ pc' = [pc EXCEPT ![p] = "run_build"]
  /\ UNCHANGED <<uiVars, graph, ckpt, agent, call, state, turnVars, gate, hybrid, vstore,
                 concVars>>

\* run(), line 135: `if self.graph is None`.
RunCheck(p) ==
  /\ pc[p] = "run"
  /\ pc' = [pc EXCEPT ![p] = IF graph = NoValue THEN "run_build" ELSE "run_invoke"]
  /\ UNCHANGED <<uiVars, graph, ckpt, agent, call, state, turnVars, gate, hybrid, vstore,
                 concVars>>

\* run(), line 136: self.build() compiles a new graph with a new, empty
\* MemorySaver and assigns it to self.graph; invocations still running on the
\* graph it replaces keep that graph and its store.
RunBuild(p) ==
  /\ pc[p] = "run_build"
  /\ graph' = "compiled"
  /\ ckpt' = [t \in {} |-> FreshState]
  /\ writer' = [t \in {} |-> NoValue]
  /\ detached' = detached \cup {q \in Procs : pc[q] \in InvokeStages}
  /\ pc' = [pc EXCEPT ![p] = "run_invoke"]
  /\ UNCHANGED <<uiVars, agent, call, state, turnVars, gate, hybrid, vstore, calls, overlap>>

\* run(), lines 138-141: self.graph.invoke on the graph self.graph holds now.
GraphInvoke(p) ==
  /\ pc[p] = "run_invoke"
  /\ LET s == LoadState(ckpt, call[p].thread_id, call[p].question)
     IN /\ state' = [state EXCEPT ![p] = s]
        /\ SaveCheckpoint(p, s)
  /\ pc' = [pc EXCEPT ![p] = EntryPoint]
  /\ UNCHANGED <<uiVars, graph, agent, call, turnVars, gate, hybrid, vstore, detached, calls, overlap>>

\* generate_answer, lines 55-61: the whole agent invocation as the one call
\* it is for its caller; its steps touch nothing the callers share.
AgentInvoke(p) ==
  /\ pc[p] = "agent_reason"
  /\ \E out \in AgentOutcomes :
       /\ faults' = [faults EXCEPT ![p] =
                       IF out.raised THEN @ \cup {"agent_llm"} ELSE @]
       /\ AgentReturn(p, out)
  /\ used' = [used EXCEPT ![p] = agent]
  /\ UNCHANGED <<uiVars, graph, ckpt, agent, call, decision, judgeCalls, trace,
                 gate, hybrid, vstore, concVars>>

WorkerTurn(p) ==
  \/ WorkerCall(p)
  \/ RunCheck(p)
  \/ RunBuild(p)
  \/ GraphInvoke(p)
  \/ Retrieve(p)
  \/ Decide(p)
  \/ GenerateDirect(p)
  \/ AgentSearch(p)
  \/ AgentBuild(p)
  \/ AgentInvoke(p)
  \/ Persist(p)

ConcNext ==
  \/ Prebuild
  \/ \E p \in Workers : WorkerTurn(p)

ConcSpec == Init /\ [][ConcNext]_vars

(* ------------- one caller of run() after the other, and build() -------- *)
\* build() called on the GraphBuilder by its owner while no run() is in
\* progress: a new graph compiled with a new, empty MemorySaver.
OwnerBuild ==
  /\ pc["w1"] \in {"idle", "returned", "raised"}
  /\ graph' = "compiled"
  /\ ckpt' = [t \in {} |-> FreshState]
  /\ writer' = [t \in {} |-> NoValue]
  /\ UNCHANGED <<uiVars, agent, pc, call, state, turnVars, gate, hybrid, vstore,
                 detached, calls, overlap>>

\* The next run() call of the sequence, on any thread.
SeqCall == calls["w1"] < MaxTurns /\ StartCall("w1")

SeqNext ==
  \/ OwnerBuild
  \/ SeqCall
  \/ RunCheck("w1")
  \/ RunBuild("w1")
  \/ GraphInvoke("w1")
  \/ Retrieve("w1")
  \/ Decide("w1")
  \/ GenerateDirect("w1")
  \/ AgentSearch("w1")
  \/ AgentBuild("w1")
  \/ AgentInvoke("w1")
  \/ Persist("w1")

SeqSpec == Init /\ [][SeqNext]_vars

(* ------------------ the gate alone, over all short replies ------------- *)
Replies == UNION {[1..n -> Alphabet] : n \in 0..MaxTextLen}

GateInputs ==
  {[GateIdle EXCEPT !.phase = "ready", !.docs = ds, !.judge = j] :
     ds \in DocLists, j \in {RaisedSeq} \cup {Returned(t) : t \in Replies}}

GateInit ==
  /\ InitProgram
  /\ gate \in GateInputs
  /\ hybrid = HybridIdle
  /\ vstore = VStoreNew

\* _decide_next_step applied to the drawn documents and judge outcome.
GateApply ==
  /\ gate.phase = "ready"
  /\ gate' = [gate EXCEPT !.phase = "done",
                          !.out = DecideNextStep(gate.docs, gate.judge)]
  /\ UNCHANGED <<uiVars, graph, ckpt, agent, pc, call, state, turnVars,
                 hybrid, vstore, concVars>>

GateNext == GateApply

GateSpec == GateInit /\ [][GateNext]_vars

(* --------------- the retriever alone, over small indexes --------------- *)
HybridInputs ==
  {[HybridIdle EXCEPT !.phase = "ready", !.bm25 = s, !.faiss = d, !.scores = r] :
     s \in IndexOutcomes, d \in IndexOutcomes, r \in RerankScores}

HybridInit ==
  /\ InitProgram
  /\ gate = GateIdle
  /\ hybrid \in HybridInputs
  /\ vstore = VStoreNew

\* One query: VectorStore.retrieve gives what the retriever gives; the
\* retrieval stage of a turn (retrieve_docs) wraps the same call.  `fused` is
\* the list the ensemble handed to the reranker.
HybridApply ==
  /\ hybrid.phase = "ready"
  /\ LET out == HybridInvoke(hybrid.bm25, hybrid.faiss, hybrid.scores)
         fused == IF out.raised THEN <<>>
                  ELSE Fuse(hybrid.bm25.value, hybrid.faiss.value, Weights)
     IN hybrid' = [hybrid EXCEPT !.phase = "done", !.out = out,
                                 !.fused = fused,
                                 !.stage = RetrieveDocs(out)]
  /\ UNCHANGED <<uiVars, graph, ckpt, agent, pc, call, state, turnVars, gate,
                 vstore, concVars>>

HybridNext == HybridApply

HybridSpec == HybridInit /\ [][HybridNext]_vars

(* ------------------------ the VectorStore object ----------------------- *)
progVars ==
  <<uiVars, graph, ckpt, agent, pc, call, state, turnVars, gate, hybrid,
    concVars>>

\* create_vectorstore(documents): the FAISS index is assigned first (line
\* 54), the retriever last (line 75); building the index, the BM25 retriever
\* or the cross encoder in between can raise and leave what was assigned so
\* far.  No index can be built from an empty list.  Both attributes are kept
\* as the documents they were built from.
CreateVectorstore ==
  /\ \E documents \in DocLists, stop \in {"faiss", "later", "none"} :
       /\ documents = <<>> => stop = "faiss"
       /\ vstore' =
            [vstore EXCEPT
               !.vectorstore = IF stop = "faiss" THEN @ ELSE Returned(documents),
               !.retriever = IF stop = "none" THEN Returned(documents) ELSE @,
               !.completed = @ \/ stop = "none",
               !.last = [NoCall EXCEPT
                           !.op = "create_vectorstore",
                           !.arg = documents,
                           !.error = IF stop = "none" THEN NoValue
                                     ELSE "create"]]
  /\ UNCHANGED progVars

GetRetriever_ChecksStore ==
  /\ vstore' =
       [vstore EXCEPT
          !.last = [NoCall EXCEPT
                      !.op = "get_retriever",
                      !.error = IF vstore.vectorstore = RaisedSeq
                                  THEN "ValueError" ELSE NoValue]]
  /\ UNCHANGED progVars

\* get_retriever: ValueError when self.retriever is None, else the retriever.
GetRetriever ==
  /\ vstore' =
       [vstore EXCEPT
          !.last = [NoCall EXCEPT
                      !.op = "get_retriever",
                      !.error = IF vstore.retriever = RaisedSeq
                                  THEN "ValueError" ELSE NoValue]]
  /\ UNCHANGED progVars

\* What a retriever built from `documents` can give for a query: an
\* exception of its own, or a list of some of the documents.
LookupOutcomes(documents) ==
  {RaisedSeq} \cup
  {Returned(l) : l \in {m \in DocLists : Range(m) \subseteq Range(documents)}}

\* retrieve(query): ValueError when self.retriever is None, else what the
\* retriever gives for the query.
VectorStoreRetrieve ==
  /\ vstore.lookups < MaxLookups
  /\ \E query \in Questions :
       IF vstore.retriever = RaisedSeq
         THEN vstore' =
                [vstore EXCEPT
                   !.last = [NoCall EXCEPT !.op = "retrieve",
                                           !.arg = <<query>>,
                                           !.error = "ValueError"]]
         ELSE \E out \in LookupOutcomes(vstore.retriever.value) :
                vstore' =
                  [vstore EXCEPT
                     !.lookups = @ + 1,
                     !.last = [op |-> "retrieve",
                               arg |-> <<query>>,
                               error |-> IF out.raised THEN "lookup"
                                         ELSE NoValue,
                               lookedUp |-> TRUE,
                               value |-> out.value]]
  /\ UNCHANGED progVars

VStoreNext ==
  \/ CreateVectorstore
  \/ GetRetriever
  \/ VectorStoreRetrieve

VStoreSpec == Init /\ [][VStoreNext]_vars

(* ============================ properties ================================ *)
Ran(p, stage) == \E k \in DOMAIN trace[p] : trace[p][k] = stage

IsPrefix(s, t) == Len(s) <= Len(t) /\ SubSeq(t, 1, Len(s)) = s

\* "oui" in any letter case somewhere in the text.
HasAffirmative(t) ==
  \E k \in 1..(Len(t) - 2) :
    /\ t[k] \in {"o", "O"}
    /\ t[k + 1] \in {"u", "U"}
    /\ t[k + 2] \in {"i", "I"}

DirectPass == <<"retriever", "gate", "generate_direct", "persist">>
AgentPass == <<"retriever", "gate", "agent_search", "persist">>

\* C1: whenever the gate has run in a turn (in progress or just ended) whose
\* retrieval left retrieved_docs empty, its decision is agent_search and the
\* turn has issued no judge request.
C1_EmptyDocsSkipJudge ==
  \A p \in Procs :
    (pc[p] # "idle" /\ Ran(p, "gate") /\ state[p].retrieved_docs = <<>>)
      => (decision[p] = "agent_search" /\ judgeCalls[p] = 0)

C1_Witness ==
  \E p \in Procs :
    /\ Ran(p, "gate") /\ state[p].retrieved_docs = <<>>
    /\ "retriever" \notin faults[p]
    /\ pc[p] = "agent_reason"

\* C2 (as claimed): in a turn whose judge request failed, the decision is
\* agent_search and the turn does not end with the exception.
C2_JudgeFailOpen ==
  \A p \in Procs :
    "judge" \in faults[p] => (decision[p] = "agent_search" /\ pc[p] # "raised")

\* C3: for non-empty documents and a judge reply, the gate issues one request
\* and chooses generate_direct exactly when the reply holds "oui" in any
\* letter case, agent_search for every other reply.
C3_GateClassifiesReply ==
  (gate.phase = "done" /\ gate.docs # <<>> /\ ~gate.judge.raised)
    => /\ gate.out.calls = 1
       /\ ~gate.out.raised
       /\ gate.out.decision \in {"generate_direct", "agent_search"}
       /\ gate.out.decision = "generate_direct" <=> HasAffirmative(gate.judge.value)

C3_Witness ==
  /\ gate.phase = "done" /\ gate.docs # <<>>
  /\ gate.judge = Returned(<<" ", "O", "U", "i">>)
  /\ gate.out.decision = "generate_direct"

\* C4: in a completed turn exactly one answer node has run, once, and it is
\* the node the gate's decision names; it has set the answer.
C4_ExactlyOneAnswerer ==
  \A p \in Procs :
    pc[p] = "returned"
      => LET ks == {k \in DOMAIN trace[p] :
                      trace[p][k] \in {"generate_direct", "agent_search"}}
         IN /\ Cardinality(ks) = 1
            /\ \A k \in ks : trace[p][k] = decision[p]
            /\ state[p].answer # NoValue

C4_Witness ==
  \E p \in Procs :
    pc[p] = "returned" /\ decision[p] = "generate_direct" /\ Ran(p, "generate_direct")

\* C5: the stages run in a turn are always an initial part of retriever,
\* gate, one answer node, persist, in that order, and a returned turn has run
\* all four.
C5_SinglePass ==
  \A p \in Procs :
    /\ IsPrefix(trace[p], DirectPass) \/ IsPrefix(trace[p], AgentPass)
    /\ pc[p] = "returned" => Len(trace[p]) = 4

C5_Witness ==
  \E p \in Procs : pc[p] = "returned" /\ trace[p] = AgentPass

\* C6 (as claimed): a turn in which building the agent or the agent's
\* reasoning call failed does not end with the exception, and when it has
\* returned its answer is the agent error text, saved in the checkpoint.
C6_AgentFailureCaught ==
  \A p \in Procs :
    (faults[p] \cap {"agent_build", "agent_llm"} # {})
      => /\ pc[p] # "raised"
         /\ pc[p] = "returned"
              => /\ state[p].answer = AgentErrorText
                 /\ ckpt[call[p].thread_id].answer = AgentErrorText

\* C7: the agent loop never takes more steps than its budget, a turn whose
\* budget ran out has not raised and leaves the agent node with a text
\* answer, and a turn inside the loop always gets to the end of the agent node.
C7_AgentLoopTerminates ==
  /\ [](\A p \in Procs :
          /\ steps[p] <= RecursionLimit
          /\ "budget" \in faults[p]
               => /\ pc[p] # "raised"
                  /\ pc[p] \in {END, "returned"}
                       => state[p].answer \in {NeedMoreStepsText, AgentErrorText})
  /\ (pc["ui"] \in {"agent_reason", "agent_tool"}) ~> (pc["ui"] = END)

C7_Witness ==
  \E p \in Procs :
    "budget" \in faults[p] /\ pc[p] = END /\ state[p].answer = NeedMoreStepsText

C9_RetrieverToolReturnsText ==
  \A p \in Procs :
    lastObs[p].tool = "retriever"
      => LET src == lastObs[p].source
             txt == lastObs[p].obs
         IN /\ ~lastObs[p].funcRaised
            /\ src.raised => txt = RetrieverErrorText
            /\ (~src.raised /\ src.value = <<>>) => txt = NoDocsText
            /\ (~src.raised /\ src.value # <<>>)
                 => /\ txt.kind = "excerpts"
                    /\ Len(txt.body) = Len(src.value)
                    /\ \A k \in 1..Len(src.value) :
                         txt.body[k] = <<"Source", k, src.value[k]>>

C9_Witness ==
  \E p \in Procs :
    /\ lastObs[p].tool = "retriever" /\ lastObs[p].source.raised
    /\ lastObs[p].obs = RetrieverErrorText

\* C10: a turn whose direct generation request failed ends with the exception
\* at the caller of run(): the agent node has not run, nothing was persisted
\* after the gate, and once the chat handler is done the last message is the
\* assistant's fixed error text.
C10_DirectFailurePropagates ==
  "direct_llm" \in faults["ui"]
    => /\ pc["ui"] \in {"raised", "idle"}
       /\ decision["ui"] = "generate_direct"
       /\ ~Ran("ui", "agent_search")
       /\ ~Ran("ui", "persist")
       /\ pc["ui"] = "idle"
            => /\ messages # <<>>
               /\ messages[Len(messages)] = Msg("assistant", <<TechErrorText>>)

C10_Witness ==
  /\ "direct_llm" \in faults["ui"]
  /\ pc["ui"] = "idle"
  /\ Len(messages) = 2

(* ------------------------ checkpoints and turns ------------------------ *)
\* The stages that read the state after the retrieval stage has written it.
AfterRetrieval ==
  {"gate", "generate_direct", "agent_search", "agent_build", "agent_reason",
   "agent_tool", END, "returned"}

\* C11: in every turn, also a later turn of a thread that already has a
\* checkpoint, the retrieved_docs seen by the gate and by the answer stage are
\* the ones the retrieval stage wrote in this turn, never those loaded from
\* the checkpoint; when the turn has returned, the thread's one checkpoint
\* holds this turn's question, retrieved_docs and answer.
C11_LaterTurnOverwrites ==
  \A p \in Procs :
    /\ pc[p] \in AfterRetrieval =>
         /\ "retrieved_docs" \notin state[p].stale
         /\ state[p].question = call[p].question
    /\ pc[p] = "returned" =>
         /\ call[p].thread_id \in DOMAIN ckpt
         /\ ckpt[call[p].thread_id] = state[p]
         /\ state[p].stale = {}
         /\ state[p].answer # NoValue

\* A second turn of the session has returned; the first one was answered by
\* the direct generator with the empty text (so its checkpoint held documents)
\* and this one retrieved nothing: the checkpoint now holds no documents.
C11_Witness ==
  /\ pc["ui"] = "returned"
  /\ Len(messages) = 3
  /\ messages[2].content = <<"">>
  /\ messages[1].content # <<call["ui"].question>>
  /\ ckpt[SessionThread].retrieved_docs = <<>>
  /\ ckpt[SessionThread].question = call["ui"].question

\* A checkpoint written at the end of a turn: question, retrieved_docs and
\* answer all come from that one turn.
TurnEndState(s) == s.stale = {} /\ s.answer # NoValue

\* C12: the state is persisted only at turn end, so a turn that aborts with an
\* exception leaves the thread's checkpoint as it was before the turn: what
\* the store then holds for the thread is nothing or the complete state of
\* one finished turn, never the question or retrieved_docs of the aborted turn
\* next to the answer of another turn (or next to no answer).
C12_AbortLeavesCheckpoint ==
  \A p \in Procs :
    pc[p] = "raised" =>
      \/ call[p].thread_id \notin DOMAIN ckpt
      \/ TurnEndState(ckpt[call[p].thread_id])

(* --------------------------- concurrent turns -------------------------- *)
\* C13: turns on different thread ids are independent: whenever the checkpoint
\* of a thread appears, changes or disappears, the step was taken by a caller
\* whose turn runs on that thread.
C13_ThreadsIndependent ==
  [][\A t \in Threads :
       (IF t \in DOMAIN ckpt THEN <<ckpt[t]>> ELSE <<>>)
           # (IF t \in DOMAIN ckpt' THEN <<ckpt'[t]>> ELSE <<>>)
         => \E p \in Procs : call[p].thread_id = t /\ pc'[p] # pc[p]]_vars

\* C14: when two overlapping turns on the same thread id have both finished,
\* the thread's checkpoint is the complete state of the turn that saved it
\* last: that turn's question with the retrieved_docs and the answer of the
\* same turn, not fields of two turns.
C14_LastWriteWins ==
  \A t \in Threads :
    (\A p \in Workers :
       /\ call[p].thread_id = t
       /\ pc[p] \in {"returned", "raised"}
       /\ p \in overlap)
      => /\ t \in DOMAIN ckpt
         /\ ckpt[t].question = call[writer[t]].question
         /\ TurnEndState(ckpt[t])

(* ------------------------------ retrieval ------------------------------ *)

\* C15: when one of the two index lookups fails and the other one finds
\* documents, the retrieval stage goes on with the other index: it returns
\* documents, all of them found by that index.
C15_DegradeToOneIndex ==
  (/\ hybrid.phase = "done"
   /\ hybrid.bm25.raised # hybrid.faiss.raised)
    => LET found == IF hybrid.bm25.raised THEN hybrid.faiss.value
                    ELSE hybrid.bm25.value
       IN /\ ~hybrid.stage.raised
          /\ found # <<>> => hybrid.stage.value # <<>>
          /\ Range(hybrid.stage.value) \subseteq Range(found)

\* C16: a query that comes back gives at most top_n = 3 documents, each one
\* in the fused candidate list, no page content twice, in order of
\* non-increasing rerank score.
C16_RerankedTopN ==
  (hybrid.phase = "done" /\ ~hybrid.out.raised)
    => LET docs == hybrid.out.value
           fused == hybrid.fused
       IN /\ Len(docs) <= 3
          /\ Range(docs) \subseteq Range(fused)
          /\ Range(fused) = Range(hybrid.bm25.value) \cup Range(hybrid.faiss.value)
          /\ \A i, j \in DOMAIN docs : i # j => docs[i] # docs[j]
          /\ \A i, j \in DOMAIN docs :
               i < j => hybrid.scores[docs[i]] >= hybrid.scores[docs[j]]

\* The two indexes found four different page contents; three come back, the
\* first with a higher rerank score than the last.
C16_Witness ==
  /\ hybrid.phase = "done" /\ ~hybrid.out.raised
  /\ Cardinality(Range(hybrid.bm25.value) \cup Range(hybrid.faiss.value)) = 4
  /\ Len(hybrid.out.value) = 3
  /\ hybrid.scores[hybrid.out.value[1]] > hybrid.scores[hybrid.out.value[3]]

\* C17: with the equal weights of the code, fusing (bm25, faiss) and fusing
\* (faiss, bm25) give the same set of candidates and the same fused score for
\* every page content; the fused list has no page content twice and no more
\* entries than the two lists together (at most k + k).
C17_FusionCommutes ==
  (hybrid.phase = "done" /\ ~hybrid.out.raised)
    => LET first == hybrid.bm25.value
           second == hybrid.faiss.value
           swapped == Fuse(second, first, Weights)
       IN /\ Weights[1] = Weights[2]
          /\ Range(hybrid.fused) = Range(swapped)
          /\ Range(hybrid.fused) = Range(first) \cup Range(second)
          /\ \A d \in Corpus :
               RrfScore(<<first, second>>, Weights, d)
                 = RrfScore(<<second, first>>, Weights, d)
          /\ \A i, j \in DOMAIN hybrid.fused :
               i # j => hybrid.fused[i] # hybrid.fused[j]
          /\ Len(hybrid.fused) <= Len(first) + Len(second)
          /\ Len(first) <= 10 /\ Len(second) <= 10

\* The two indexes rank the same two page contents in opposite orders: the
\* fused list has each of them once, with equal scores.
C17_Witness ==
  /\ hybrid.phase = "done" /\ ~hybrid.out.raised
  /\ hybrid.bm25.value = <<"d1", "d2">>
  /\ hybrid.faiss.value = <<"d2", "d1">>
  /\ hybrid.fused = <<"d1", "d2">>

(* --------------------------- results of a turn ------------------------- *)
\* C18: when run() has returned normally, the returned state has an answer
\* and a retrieved_docs list, and the list is the one the retrieval stage of
\* this turn wrote: the empty list when the retriever failed.
C18_ReturnedStateComplete ==
  \A p \in Procs :
    pc[p] = "returned" =>
      /\ state[p].answer # NoValue
      /\ Ran(p, "retriever")
      /\ "retrieved_docs" \notin state[p].stale
      /\ "retriever" \in faults[p] => state[p].retrieved_docs = <<>>

\* A turn on a thread that has a checkpoint returned after its retriever
\* failed: the returned list is empty.
C18_Witness ==
  /\ pc["ui"] = "returned"
  /\ Len(messages) = 3
  /\ Len(messages[1].content) = 1
  /\ "retriever" \in faults["ui"]
  /\ state["ui"].retrieved_docs = <<>>
  /\ state["ui"].answer # NoValue

\* C19: on the agent path, whatever the agent invocation comes back with (a
\* last message with text, one with empty text, or an exception), the node
\* returns an answer that is a non-empty string; the node raises only when
\* the agent could not be built, before any invocation.
C19_AgentAnswerNonEmpty ==
  \A p \in Procs :
    Ran(p, "agent_search") =>
      /\ pc[p] \in {END, "returned"} => state[p].answer \notin {NoValue, ""}
      /\ pc[p] = "raised" => "agent_build" \in faults[p]

\* The agent's last message had no text and the fallback text is the answer.
C19_Witness ==
  \E p \in Procs :
    /\ pc[p] = END
    /\ Ran(p, "agent_search")
    /\ faults[p] = {}
    /\ state[p].answer = UnableText

\* C20: once the system is built, the retriever test command runs the query
\* against the retriever and shows what it finds: test_retriever comes back
\* with None only when the retriever itself fails.
C20_TestRunsRetriever ==
  lastObs["ui"].tool = "test_retriever" =>
    /\ lastObs["ui"].funcRaised => lastObs["ui"].toolRaised
    /\ (~lastObs["ui"].source.raised /\ lastObs["ui"].source.value # <<>>)
         => messages[Len(messages)].content # <<TestFailText>>

(* ------------------------ failures of the retriever -------------------- *)
\* C21: in a turn whose retriever raised in the retrieval stage, the stage
\* did not raise but wrote the empty list to retrieved_docs; the gate, once
\* run, chose agent_search without a judge request; the direct generator
\* never runs, and the answer the turn ends with was written by the agent
\* node.  Such a turn can raise only from the agent node on.
C21_RetrieverFailureGoesToAgent ==
  \A p \in Procs :
    (pc[p] # "idle" /\ "retriever" \in faults[p]) =>
      /\ state[p].retrieved_docs = <<>>
      /\ "retrieved_docs" \notin state[p].stale
      /\ pc[p] = "raised" => Ran(p, "agent_search")
      /\ Ran(p, "gate") => (decision[p] = "agent_search" /\ judgeCalls[p] = 0)
      /\ ~Ran(p, "generate_direct")
      /\ pc[p] \in {END, "returned"} =>
           /\ Ran(p, "agent_search")
           /\ state[p].answer # NoValue
           /\ "answer" \notin state[p].stale

\* The second turn of a thread whose first turn was answered directly: the
\* retriever raised, and the turn returned with the agent's answer.
C21_Witness ==
  /\ pc["ui"] = "returned"
  /\ Len(messages) = 3
  /\ Len(messages[1].content) = 1
  /\ "retriever" \in faults["ui"]
  /\ trace["ui"] = AgentPass
  /\ state["ui"].answer = "txt"

(* ----------------------------- the agent ------------------------------- *)
\* C22: a RAGNodes instance builds its agent at most once, also when turns
\* on different threads reach generate_answer together while no agent exists:
\* self._agent is never a second agent, and all the invocations of the turns
\* ran on the same agent.
C22_AgentBuiltOnce ==
  /\ agent \in {NoAgent, 1}
  /\ \A p, q \in Procs :
       (used[p] # NoAgent /\ used[q] # NoAgent) => used[p] = used[q]

(* ------------------- lifetime of the checkpoint store ------------------ *)
\* C23: over run() calls made one after the other on one GraphBuilder, run()
\* goes on to build only when no graph exists, a step of run() other than
\* that build keeps the checkpoint of every thread (only the checkpoint of
\* the call's own thread may change), and a build (build() itself, or the one
\* inside run()) leaves a store with no checkpoint at all.
C23_StoreLivesWithGraph ==
  [][ LET t == call'["w1"].thread_id
          isBuild == pc' = pc \/ pc["w1"] = "run_build"
      IN /\ pc'["w1"] = "run_build" => graph = NoValue
         /\ isBuild => DOMAIN ckpt' = {}
         /\ ~isBuild =>
              \A u \in DOMAIN ckpt :
                u \in DOMAIN ckpt' /\ (u # t => ckpt'[u] = ckpt[u]) ]_vars

\* The second call, on thread t2, has returned and the store holds the
\* finished turns of both threads.
C23_Witness ==
  /\ calls["w1"] = 2
  /\ pc["w1"] = "returned"
  /\ call["w1"].thread_id = "t2"
  /\ DOMAIN ckpt = {"t1", "t2"}
  /\ ckpt["t1"].answer # NoValue
  /\ ckpt["t2"].answer # NoValue

(* ----------------------------- UI session ------------------------------ *)
\* C24: in every state of the UI session, initialized holds exactly when
\* rag_system is a GraphBuilder, and that GraphBuilder's graph is compiled;
\* while initialized is false there is no chat history (the build button
\* resets all three, and a build that fails or has no source leaves them
\* reset); a question is being handled only while both are set.
C24_InitializedMeansBuilt ==
  /\ initialized => (rag_system = "GraphBuilder" /\ graph = "compiled")
  /\ ~initialized => (rag_system = NoValue /\ messages = <<>>)
  /\ pc["ui"] # "idle" => (initialized /\ rag_system # NoValue)

\* The built system is handling its second question.
C24_Witness ==
  /\ initialized
  /\ rag_system = "GraphBuilder"
  /\ Len(messages) = 3
  /\ pc["ui"] = "run"

\* C25: the chat history alternates user, assistant, user, ...; its length is
\* even whenever no question is being handled and odd (the question is its
\* last message) while one is; and after a question whose run() raised, the
\* last message is the assistant's fixed technical-error text.
C25_HistoryAlternates ==
  /\ \A k \in 1..Len(messages) :
       messages[k].role = IF k % 2 = 1 THEN "user" ELSE "assistant"
  /\ pc["ui"] = "idle" => Len(messages) % 2 = 0
  /\ pc["ui"] # "idle" => Len(messages) % 2 = 1
  /\ (pc["ui"] = "idle" /\ trace["ui"] # <<>>
        /\ trace["ui"][Len(trace["ui"])] # "persist")
       => messages[Len(messages)] = Msg("assistant", <<TechErrorText>>)

\* Two questions were handled: run() raised for the first, the second was a
\* retriever test.
C25_Witness ==
  /\ pc["ui"] = "idle"
  /\ Len(messages) = 4
  /\ messages[2] = Msg("assistant", <<TechErrorText>>)
  /\ Len(messages[3].content) = 2
  /\ messages[4].role = "assistant"

(* --------------------------- VectorStore ------------------------------- *)
\* C26: a call of get_retriever or retrieve ends with the not-initialized
\* ValueError exactly when no create_vectorstore call of this VectorStore
\* has completed, and a call that ends with it has not queried the retriever.
C26_ValueErrorIffNotCreated ==
  vstore.last.op \in {"get_retriever", "retrieve"} =>
    /\ vstore.last.error = "ValueError" <=> ~vstore.completed
    /\ vstore.last.error = "ValueError" => ~vstore.last.lookedUp

\* retrieve was called after a create_vectorstore call that assigned the
\* index and then failed: ValueError, and nothing was ever looked up.
C26_Witness ==
  /\ vstore.last.op = "retrieve"
  /\ vstore.last.error = "ValueError"
  /\ vstore.vectorstore = Returned(<<"d1">>)
  /\ vstore.lookups = 0

====
